---- MODULE Spec2Model ----
(***************************************************************************)
(* Model of repo_migratinator.py: migrate_repos() and run_command().       *)
(*                                                                         *)
(* Strings are sequences of one-character strings, so that rstrip('/'),    *)
(* the f-string concatenations and git's choice of the clone directory are *)
(* computed character by character.  The working directory is a map from   *)
(* relative paths to entries; the remote hosts are a map from URLs to ref  *)
(* sets.  git itself is the environment: each invocation may succeed, exit *)
(* non-zero, or not be found on the PATH.                                  *)
(***************************************************************************)
EXTENDS Integers, Sequences, FiniteSets, TLC

VARIABLES
    origin_host,   \* argument of migrate_repos
    dest_host,     \* argument of migrate_repos
    repos,         \* argument of migrate_repos: sequence of repo names
    no_push,       \* argument of migrate_repos
    i,             \* position of the for-loop in repos (1-based)
    pc,            \* "iter" | "clone" | "seturl" | "push" | "cleanup" | "exited"
    origin_url,    \* local of the current iteration
    dest_url,      \* local of the current iteration
    repo_dir,      \* local of the current iteration
    fs,            \* working directory: path -> entry
    remote,        \* remote hosts: URL -> set of refs
    exit_status,   \* -1 while running, then the process exit status
    outcome,       \* "none" | "ok" | "ToolNotFound" | "CommandFailed" | "Traceback"
    cause,         \* what really happened: "none" | "git_missing" | "nonzero" | "cwd_missing" | "exception"
    log,           \* sequence of effects: git invocations and rmtree deletions
    at_clone,      \* origin ref set seen by the clone of the current repo
    updates        \* number of third-party pushes to origin repositories so far

vars == <<origin_host, dest_host, repos, no_push, i, pc, origin_url, dest_url,
          repo_dir, fs, remote, exit_status, outcome, cause, log, at_clone, updates>>

----------------------------------------------------------------------------
(* Bounds *)

MaxRepos == 3        \* longest repo list
MaxUpdates == 1      \* third-party pushes to the origin during a run
MaxLeftovers == 1    \* entries in the working directory before the run
MaxBaseLen == 3      \* longest base URL of the URL-construction specification

----------------------------------------------------------------------------
(* String helpers *)

DotGit == <<".", "g", "i", "t">>
Slash == <<"/">>

EndsWith(s, suf) ==
    /\ Len(s) >= Len(suf)
    /\ SubSeq(s, Len(s) - Len(suf) + 1, Len(s)) = suf

DropLast(s, n) == SubSeq(s, 1, Len(s) - n)

\* a plausible bug: strip one trailing slash only
RStripOne(s) ==
    IF s # <<>> /\ s[Len(s)] = "/" THEN DropLast(s, 1) ELSE s

\* str.rstrip('/'): remove every trailing '/'
RECURSIVE RStrip(_)
RStrip(s) ==
    IF s # <<>> /\ s[Len(s)] = "/" THEN RStrip(DropLast(s, 1)) ELSE s

\* a plausible bug: the base is used as given
MakeUrlNoStrip(host, repo) == host \o Slash \o repo \o DotGit

\* f"{host.rstrip('/')}/{repo}.git"
MakeUrl(host, repo) == RStrip(host) \o Slash \o repo \o DotGit

\* f"{repo}.git"
RepoDir(repo) == repo \o DotGit

\* the part of s after its last '/'
RECURSIVE LastComponent(_)
LastComponent(s) ==
    IF s = <<>> \/ s[Len(s)] = "/" THEN <<>>
    ELSE LastComponent(DropLast(s, 1)) \o <<s[Len(s)]>>

\* `git clone --mirror <url>` is given no directory: git names the directory
\* after the last path component of the URL (trailing slashes and a trailing
\* "/.git" dropped, a ".git" suffix dropped, ".git" appended for a bare clone).
GitCloneDir(url) ==
    LET t == RStrip(url)
        u == IF Len(t) > 5 /\ EndsWith(t, Slash \o DotGit) THEN RStrip(DropLast(t, 5)) ELSE t
        c == LastComponent(u)
        b == IF EndsWith(c, DotGit) THEN DropLast(c, 4) ELSE c
    IN  b \o DotGit

----------------------------------------------------------------------------
(* The environment: names, hosts, the working directory, the remote hosts *)

Names == {<<"a">>, <<"b">>, <<"t", "/", "a">>}

OriginHosts == {<<"h", "/">>}
DestHosts == {<<"d">>, <<"h">>}

URLs == {MakeUrl(h, n) : h \in OriginHosts \cup DestHosts, n \in Names}

Paths == {RepoDir(n) : n \in Names}
            \cup {GitCloneDir(MakeUrl(h, n)) : h \in OriginHosts, n \in Names}

Absent == [kind |-> "absent", refs |-> {}, fetch |-> <<>>, push |-> <<>>]
Leftover(k) == [kind |-> k, refs |-> {}, fetch |-> <<>>, push |-> <<>>]

\* what a successful `git clone --mirror url` creates: every ref of the
\* source, one remote "origin" whose fetch and push URL are the source
Mirror(refs, url) == [kind |-> "mirror", refs |-> refs, fetch |-> url, push |-> url]

\* os.path.exists(path)
Exists(f, p) == f[p].kind # "absent"

\* a directory that shutil.rmtree can delete / that can be a cwd
IsDir(f, p) == f[p].kind \in {"dir", "mirror"}

\* a plausible bug: the deletion is forgotten
RmtreeNoop(f, p) == f

\* shutil.rmtree(path) on a directory
Rmtree(f, p) == [f EXCEPT ![p] = Absent]

\* a plausible bug: `git remote set-url origin <url>` without --push
SetUrlAll(e, url) == [e EXCEPT !.push = url, !.fetch = url]

\* `git remote set-url --push origin <url>` inside a mirror
SetUrlPush(e, url) == [e EXCEPT !.push = url]

\* a plausible bug: `git push --all`, which never deletes a ref
PushNoDelete(rem, url, refs) == [rem EXCEPT ![url] = @ \cup refs]

\* `git push --mirror`: the push URL's ref set becomes the local one
PushMirror(rem, url, refs) == [rem EXCEPT ![url] = refs]

\* a plausible bug: the flag is read the wrong way round
PushWantedInverted(np) == np

\* `if not no_push:`
PushWanted(np) == ~np

----------------------------------------------------------------------------
(* run_command *)

\* the except clause that handles each way an invocation can go wrong
Diagnostic(c) ==
    CASE c \in {"git_missing", "cwd_missing"} -> "ToolNotFound"   \* except FileNotFoundError
      [] c = "nonzero" -> "CommandFailed"                         \* except CalledProcessError
      [] OTHER -> "none"

Running(next) == [pc |-> next, exit_status |-> -1, outcome |-> "none", cause |-> "none"]

Exited(status, o, c) == [pc |-> "exited", exit_status |-> status, outcome |-> o, cause |-> c]

\* a plausible bug: check=False, the failure is not noticed
RunCommandNoCheck(c, next) == Running(next)

\* run_command: returns on success, sys.exit(1) on either exception
RunCommand(c, next) ==
    IF c = "ok" THEN Running(next) ELSE Exited(1, Diagnostic(c), c)

\* an exception nobody catches: traceback, exit status 1
Uncaught == Exited(1, "Traceback", "exception")

\* what subprocess.run can do with a git command, given its cwd:
\* a missing cwd raises FileNotFoundError before git is started
Outcomes(cwd_ok, can_succeed) ==
    IF ~cwd_ok THEN {"cwd_missing", "git_missing"}
    ELSE IF can_succeed THEN {"ok", "nonzero", "git_missing"}
    ELSE {"nonzero", "git_missing"}

Control(r) ==
    /\ pc' = r.pc
    /\ exit_status' = r.exit_status
    /\ outcome' = r.outcome
    /\ cause' = r.cause

Logged(op, arg, res) == Append(log, [op |-> op, idx |-> i, arg |-> arg, res |-> res])

inputs == <<origin_host, dest_host, repos, no_push>>
locals == <<origin_url, dest_url, repo_dir>>

----------------------------------------------------------------------------
(* migrate_repos *)

RECURSIVE SeqsUpTo(_, _)
SeqsUpTo(S, n) ==
    IF n = 0 THEN {<<>>}
    ELSE LET shorter == SeqsUpTo(S, n - 1)
         IN  shorter \cup {Append(s, x) : s \in {t \in shorter : Len(t) = n - 1}, x \in S}

InitialFs ==
    {f \in [Paths -> {Absent, Leftover("dir"), Leftover("file")}] :
        Cardinality({p \in Paths : f[p] # Absent}) <= MaxLeftovers}

InitialRemote ==
    [u \in URLs |-> IF u \in {MakeUrl(h, n) : h \in OriginHosts, n \in Names}
                    THEN {"main"} ELSE {"old"}]

Init ==
    /\ origin_host \in OriginHosts
    /\ dest_host \in DestHosts
    /\ repos \in SeqsUpTo(Names, MaxRepos)
    /\ no_push \in BOOLEAN
    /\ i = 1
    /\ pc = "iter"
    /\ origin_url = <<>>
    /\ dest_url = <<>>
    /\ repo_dir = <<>>
    /\ fs \in InitialFs
    /\ remote = InitialRemote
    /\ exit_status = -1
    /\ outcome = "none"
    /\ cause = "none"
    /\ log = <<>>
    /\ at_clone = {}
    /\ updates = 0

\* top of the loop body: the URLs, the directory name, and the pre-clean
Prepare ==
    /\ pc = "iter"
    /\ i <= Len(repos)
    /\ LET rd == RepoDir(repos[i]) IN
        /\ origin_url' = MakeUrl(origin_host, repos[i])
        /\ dest_url' = MakeUrl(dest_host, repos[i])
        /\ repo_dir' = rd
        /\ IF ~Exists(fs, rd)
           THEN /\ Control(Running("clone"))
                /\ UNCHANGED <<fs, log>>
           ELSE IF IsDir(fs, rd)
           THEN /\ Control(Running("clone"))
                /\ fs' = Rmtree(fs, rd)
                /\ log' = Logged("preclean", rd, "ok")
           ELSE /\ Control(Uncaught)       \* rmtree of a non-directory raises
                /\ UNCHANGED <<fs, log>>
    /\ UNCHANGED <<inputs, i, remote, at_clone, updates>>

\* Step 1: git clone --mirror origin_url.  git refuses a target that exists
\* (a leftover is never empty) and removes what it created when it fails,
\* so a failed clone leaves the working directory as it was.
Clone ==
    /\ pc = "clone"
    /\ LET target == GitCloneDir(origin_url) IN
       \E c \in Outcomes(TRUE, ~Exists(fs, target)) :
        /\ Control(RunCommand(c, "seturl"))
        /\ log' = Logged("clone", origin_url, c)
        /\ IF c = "ok"
           THEN /\ fs' = [fs EXCEPT ![target] = Mirror(remote[origin_url], origin_url)]
                /\ at_clone' = remote[origin_url]
           ELSE UNCHANGED <<fs, at_clone>>
    /\ UNCHANGED <<inputs, locals, i, remote, updates>>

\* Step 2: git remote set-url --push origin dest_url, cwd=repo_dir
SetUrl ==
    /\ pc = "seturl"
    /\ \E c \in Outcomes(IsDir(fs, repo_dir), fs[repo_dir].kind = "mirror") :
        /\ Control(RunCommand(c, "push"))
        /\ log' = Logged("seturl", dest_url, c)
        /\ IF c = "ok"
           THEN fs' = [fs EXCEPT ![repo_dir] = SetUrlPush(@, dest_url)]
           ELSE UNCHANGED fs
    /\ UNCHANGED <<inputs, locals, i, remote, at_clone, updates>>

\* Step 3: git push --mirror, cwd=repo_dir, unless no_push
Push ==
    /\ pc = "push"
    /\ IF PushWanted(no_push)
       THEN \E c \in Outcomes(IsDir(fs, repo_dir), fs[repo_dir].kind = "mirror") :
             /\ Control(RunCommand(c, "cleanup"))
             /\ log' = Logged("push", fs[repo_dir].push, c)
             /\ IF c = "ok"
                THEN remote' = PushMirror(remote, fs[repo_dir].push, fs[repo_dir].refs)
                ELSE UNCHANGED remote
       ELSE /\ Control(Running("cleanup"))
            /\ UNCHANGED <<log, remote>>
    /\ UNCHANGED <<inputs, locals, i, fs, at_clone, updates>>

\* Step 4: shutil.rmtree(repo_dir), then the next repo
Cleanup ==
    /\ pc = "cleanup"
    /\ IF IsDir(fs, repo_dir)
       THEN /\ Control(Running("iter"))
            /\ fs' = Rmtree(fs, repo_dir)
            /\ log' = Logged("rmtree", repo_dir, "ok")
            /\ i' = i + 1
       ELSE /\ Control(Uncaught)
            /\ UNCHANGED <<fs, log, i>>
    /\ UNCHANGED <<inputs, locals, remote, at_clone, updates>>

\* the loop is exhausted: the function returns, the process exits 0
Finish ==
    /\ pc = "iter"
    /\ i > Len(repos)
    /\ Control(Exited(0, "ok", "none"))
    /\ UNCHANGED <<inputs, locals, i, fs, remote, log, at_clone, updates>>

\* somebody else pushes a new ref to an origin repository of this run
ThirdPartyPush ==
    /\ pc # "exited"
    /\ updates < MaxUpdates
    /\ \E k \in 1..Len(repos) :
        LET u == MakeUrl(origin_host, repos[k]) IN
        /\ "tag" \notin remote[u]
        /\ remote' = [remote EXCEPT ![u] = @ \cup {"tag"}]
    /\ updates' = updates + 1
    /\ UNCHANGED <<inputs, locals, i, pc, fs, exit_status, outcome, cause, log, at_clone>>

Next ==
    \/ Prepare
    \/ Clone
    \/ SetUrl
    \/ Push
    \/ Cleanup
    \/ Finish
    \/ ThirdPartyPush

Spec == Init /\ [][Next]_vars

----------------------------------------------------------------------------
(* URL construction on its own: lines 88-92 applied to arbitrary bases *)

Bases == SeqsUpTo({"h", "/"}, MaxBaseLen)

InitUrl ==
    /\ origin_host \in Bases
    /\ dest_host \in Bases
    /\ repos \in {<<n>> : n \in Names}
    /\ no_push = FALSE
    /\ i = 1
    /\ pc = "url"
    /\ origin_url = <<>>
    /\ dest_url = <<>>
    /\ repo_dir = <<>>
    /\ fs = [p \in Paths |-> Absent]
    /\ remote = InitialRemote
    /\ exit_status = -1
    /\ outcome = "none"
    /\ cause = "none"
    /\ log = <<>>
    /\ at_clone = {}
    /\ updates = 0

BuildUrls ==
    /\ pc = "url"
    /\ origin_url' = MakeUrl(origin_host, repos[i])
    /\ dest_url' = MakeUrl(dest_host, repos[i])
    /\ repo_dir' = RepoDir(repos[i])
    /\ pc' = "built"
    /\ UNCHANGED <<inputs, i, fs, remote, exit_status, outcome, cause, log, at_clone, updates>>

NextUrl == BuildUrls

SpecUrl == InitUrl /\ [][NextUrl]_vars

----------------------------------------------------------------------------
(* Vocabulary of the properties *)

Last(s) == s[Len(s)]

Entries(op, k) == {j \in 1..Len(log) : log[j].op = op /\ log[j].idx = k}

\* the clone command of the k-th repo was invoked and failed
FailedClone(k) == \E j \in Entries("clone", k) : log[j].res # "ok"

\* the k-th repo went through its whole procedure, cleanup included
Completed(k) == Entries("rmtree", k) # {}

\* a step of the script, as opposed to a step of a third party
ScriptStep == updates' = updates

\* the failing step that ended the run, if a git command ended it
EndedBy(ops) ==
    /\ pc = "exited"
    /\ log # <<>>
    /\ Last(log).op \in ops
    /\ Last(log).res # "ok"

\* p is b without its trailing slashes
StrippedOf(b, p) ==
    /\ Len(p) <= Len(b)
    /\ p = SubSeq(b, 1, Len(p))
    /\ \A k \in (Len(p) + 1)..Len(b) : b[k] = "/"
    /\ (p = <<>> \/ p[Len(p)] # "/")

Prefixes(b) == {SubSeq(b, 1, n) : n \in 0..Len(b)}

\* x and y differ only in trailing slashes
SameButSlashes(x, y) == \E p \in Prefixes(x) : StrippedOf(x, p) /\ StrippedOf(y, p)

\* the log without the pre-clean deletions
RECURSIVE Steps(_)
Steps(l) ==
    IF l = <<>> THEN <<>>
    ELSE IF Last(l).op = "preclean" THEN Steps(DropLast(l, 1))
    ELSE Append(Steps(DropLast(l, 1)), Last(l))

Effect(op, k, arg) == [op |-> op, idx |-> k, arg |-> arg, res |-> "ok"]

\* b without its trailing slashes
Base(b) == CHOOSE p \in Prefixes(b) : StrippedOf(b, p)

\* clone, set-url, push, delete for the first n repos, in input order
RECURSIVE Expected(_)
Expected(n) ==
    IF n = 0 THEN <<>>
    ELSE Expected(n - 1) \o
         << Effect("clone", n, Base(origin_host) \o Slash \o repos[n] \o DotGit),
            Effect("seturl", n, Base(dest_host) \o Slash \o repos[n] \o DotGit),
            Effect("push", n, Base(dest_host) \o Slash \o repos[n] \o DotGit),
            Effect("rmtree", n, repos[n] \o DotGit) >>

----------------------------------------------------------------------------
(* C1 *)

C1_State ==
    \A k \in 1..Len(repos) :
        FailedClone(k) =>
            /\ pc = "exited"
            /\ exit_status > 0
            /\ \A j \in 1..(k - 1) : Completed(j) /\ ~Exists(fs, RepoDir(repos[j]))
            /\ \A j \in 1..Len(log) : log[j].idx <= k

\* C1: once the clone of the i-th repo has failed, every repo before i has
\* gone through its whole procedure and its "<name>.git" is absent, nothing
\* was or will be invoked or changed for a repo after i, and the process has
\* ended with a non-zero status.
C1_FatalAbort ==
    /\ []C1_State
    /\ [][pc = "exited" => UNCHANGED <<pc, exit_status, fs, remote, log>>]_vars

C1_Witness ==
    /\ Len(repos) = 3
    /\ FailedClone(2)
    /\ Completed(1)
    /\ pc = "exited"

----------------------------------------------------------------------------
(* C2 *)

\* C2: with no_push, no push is ever invoked; and when the run has ended
\* with status 0, every repo had its clone and its set-url invoked and no
\* repo's "<name>.git" exists.
C2_SkipPublish ==
    no_push =>
        /\ \A j \in 1..Len(log) : log[j].op # "push"
        /\ (pc = "exited" /\ exit_status = 0) =>
              \A k \in 1..Len(repos) :
                  /\ \E j \in Entries("clone", k) :
                        log[j].arg = Base(origin_host) \o Slash \o repos[k] \o DotGit
                  /\ \E j \in Entries("seturl", k) :
                        log[j].arg = Base(dest_host) \o Slash \o repos[k] \o DotGit
                  /\ ~Exists(fs, RepoDir(repos[k]))

C2_Witness ==
    /\ no_push
    /\ pc = "exited"
    /\ exit_status = 0
    /\ Len(repos) >= 2
    /\ Entries("seturl", 2) # {}

----------------------------------------------------------------------------
(* C3 *)

\* C3: the push step of a repo leaves the destination's ref set equal to
\* the origin's ref set as the clone of that repo saw it.
C3_MirrorResult ==
    [][(pc = "push" /\ pc' = "cleanup" /\ ~no_push) => remote'[dest_url] = at_clone]_vars

C3_Witness ==
    /\ pc = "cleanup"
    /\ ~no_push
    /\ dest_url # origin_url
    /\ remote[dest_url] = at_clone
    /\ "old" \notin remote[dest_url]         \* a ref only the destination had is gone
    /\ remote[origin_url] # at_clone         \* the origin moved on after the clone

----------------------------------------------------------------------------
(* C4 *)

\* C4 as stated: whenever clone, set-url or push fails for a repo, that
\* repo's "<name>.git" is present after the process has terminated.
C4_Original ==
    EndedBy({"clone", "seturl", "push"}) => Exists(fs, RepoDir(repos[Last(log).idx]))

\* C4, amended: whenever set-url or push fails for a repo, the mirror that
\* the repo's clone created is present after the process has terminated.
C4_CleanupSkipped ==
    EndedBy({"seturl", "push"}) =>
        fs[GitCloneDir(MakeUrl(origin_host, repos[Last(log).idx]))].kind = "mirror"

C4_Witness ==
    /\ EndedBy({"push"})
    /\ Last(log).res = "nonzero"
    /\ fs[repo_dir].kind = "mirror"

----------------------------------------------------------------------------
(* C5 *)

\* C5 as stated: whatever exists at "<name>.git" when the iteration starts
\* is removed, and the run goes on to the clone with nothing at that path.
C5_Original ==
    [][(pc = "iter" /\ i <= Len(repos) /\ Exists(fs, RepoDir(repos[i])) /\ ScriptStep)
          => (pc' = "clone" /\ ~Exists(fs', RepoDir(repos[i])))]_vars

\* C5, amended: a directory that exists at "<name>.git" when the iteration
\* starts is removed, and whenever the clone command is about to be invoked
\* nothing is at that path.
C5_PreClean ==
    /\ [][(pc = "iter" /\ i <= Len(repos) /\ IsDir(fs, RepoDir(repos[i])) /\ ScriptStep)
            => (pc' = "clone" /\ ~Exists(fs', RepoDir(repos[i])))]_vars
    /\ [](pc = "clone" => ~Exists(fs, repo_dir))

C5_Witness ==
    /\ pc = "clone"
    /\ log # <<>>
    /\ Last(log).op = "preclean"
    /\ Last(log).idx = i
    /\ ~Exists(fs, repo_dir)

----------------------------------------------------------------------------
(* C6 *)

\* C6: each URL is the base without its trailing slashes, then "/", the
\* name and ".git"; bases that differ only in trailing slashes give the
\* same URL; a base without a trailing slash is used as it is.
C6_UrlTrailingSlash ==
    pc = "built" =>
        /\ \E p \in Prefixes(origin_host) :
              StrippedOf(origin_host, p) /\ origin_url = p \o Slash \o repos[i] \o DotGit
        /\ \E p \in Prefixes(dest_host) :
              StrippedOf(dest_host, p) /\ dest_url = p \o Slash \o repos[i] \o DotGit
        /\ SameButSlashes(origin_host, dest_host) => origin_url = dest_url
        /\ (origin_host = <<>> \/ Last(origin_host) # "/")
              => origin_url = origin_host \o Slash \o repos[i] \o DotGit

C6_Witness ==
    /\ pc = "built"
    /\ origin_host = <<"h", "/", "/">>
    /\ dest_host = <<"h">>
    /\ origin_url = dest_url
    /\ origin_url = <<"h", "/">> \o repos[i] \o DotGit

----------------------------------------------------------------------------
(* C7 *)

----------------------------------------------------------------------------
(* C8 *)

\* C8 as stated: the directory that the clone creates is the "<name>.git"
\* that the pre-clean checked and that set-url, push and cleanup use.
C8_Original ==
    pc = "seturl" =>
        /\ GitCloneDir(origin_url) = repo_dir
        /\ fs[repo_dir].kind = "mirror"

----------------------------------------------------------------------------
(* C9 *)

\* C9 as stated: the run ends with the "not found" diagnostic exactly when
\* git is missing, with the "error executing" diagnostic exactly when git
\* ran and returned non-zero, and either way with a non-zero status.
C9_Original ==
    pc = "exited" =>
        /\ (outcome = "ToolNotFound") <=> (cause = "git_missing")
        /\ (outcome = "CommandFailed") <=> (cause = "nonzero")
        /\ outcome \in {"ToolNotFound", "CommandFailed"} => exit_status > 0

----------------------------------------------------------------------------
(* C10 *)

C10_Retarget ==
    (pc = "seturl" /\ pc' = "push") =>
        /\ fs'[repo_dir].push = dest_url
        /\ fs'[repo_dir].fetch = origin_url
        /\ fs'[repo_dir].refs = fs[repo_dir].refs
        /\ \A p \in Paths \ {repo_dir} : fs'[p] = fs[p]

C10_OnlyDestination ==
    ScriptStep =>
        \A u \in URLs :
            remote'[u] # remote[u] => (pc = "push" /\ pc' = "cleanup" /\ ~no_push /\ u = dest_url)

C10_OriginUntouched ==
    ScriptStep =>
        \A k \in 1..Len(repos) :
            remote'[MakeUrl(origin_host, repos[k])] = remote[MakeUrl(origin_host, repos[k])]

\* C10 as stated: set-url changes the push URL only, the script changes no
\* remote but the destination of a repo it pushes, and it never changes the
\* ref set of an origin repository.
C10_Original ==
    [][C10_Retarget /\ C10_OnlyDestination /\ C10_OriginUntouched]_vars

\* C10, amended: set-url changes the push URL only, and the script changes
\* no remote but the one at the destination URL of a repo it pushes (which
\* is an origin repository only when the two bases name the same host).
C10_FrameEffect ==
    [][C10_Retarget /\ C10_OnlyDestination]_vars

C10_Witness ==
    /\ pc = "cleanup"
    /\ ~no_push
    /\ fs[repo_dir].fetch = origin_url
    /\ fs[repo_dir].push = dest_url
    /\ dest_url # origin_url
    /\ remote[dest_url] = {"main"}
    /\ remote[origin_url] = {"main"}

====
